---- MODULE Spec2Model ----
(***************************************************************************)
(* Model of src/main.py: the wine-store static page generator.             *)
(*                                                                         *)
(* Python values are tagged records [t, s, n]:                             *)
(*   t = "None"  the value None (also what dict.get gives for a missing    *)
(*               key),                                                     *)
(*   t = "NaN"   the float NaN pandas produces for a blank cell,           *)
(*   t = "str"   a string, s its characters,                               *)
(*   t = "num"   a number, n its value.                                    *)
(* A spreadsheet row is a record with the fields Name ('Название'),        *)
(* Grape ('Сорт'), Price ('Цена'), Image ('Картинка') and Category         *)
(* ('Категория'); an emitted row has Name, Grape, Price, Image and Promo   *)
(* ('Акция').  A Python dict keyed by category is a sequence of            *)
(* [key, wines] entries in insertion order.                                *)
(***************************************************************************)
EXTENDS Integers, Sequences, FiniteSets

VARIABLES pc, wines_list, cheapest_ret, cheapest_wine, grouped_wines,
          json_file, html_file, error_printed, return_code, exit_status,
          failed_stage, trace, winery_age, age, year_word

vars == <<pc, wines_list, cheapest_ret, cheapest_wine, grouped_wines,
          json_file, html_file, error_printed, return_code, exit_status,
          failed_stage, trace, winery_age, age, year_word>>

\* ------------------------------------------------------------- bounds
\* Longest list of spreadsheet rows.
MaxLen == 3

\* Largest age handed to get_year_word.
MaxAge == 250

\* ------------------------------------------------------ Python values
None == [t |-> "None", s |-> <<>>, n |-> 0]

NaN == [t |-> "NaN", s |-> <<>>, n |-> 0]

Str(chars) == [t |-> "str", s |-> chars, n |-> 0]

Num(k) == [t |-> "num", s |-> <<>>, n |-> k]

\* pandas.notna: false for None and for NaN.
notna(value) == value.t \notin {"None", "NaN"}

\* Python's ==: NaN compares unequal to everything, itself included.
PyEq(a, b) == a.t # "NaN" /\ b.t # "NaN" /\ a = b

Whitespace == {" ", "\t", "\n"}

RECURSIVE lstrip(_)
lstrip(chars) ==
    IF chars # <<>> /\ Head(chars) \in Whitespace
    THEN lstrip(Tail(chars))
    ELSE chars

RECURSIVE rstrip(_)
rstrip(chars) ==
    IF chars # <<>> /\ chars[Len(chars)] \in Whitespace
    THEN rstrip(SubSeq(chars, 1, Len(chars) - 1))
    ELSE chars

\* str.strip()
strip(chars) == rstrip(lstrip(chars))

\* ------------------------------------------------------ get_year_word
\* The three word forms are written in Latin letters: "god" is 'год',
\* "goda" is 'года', "let" is 'лет'.
\* The same tests with the last digit looked at first.
get_year_word_swapped(a) ==
    LET last_digit == a % 10
        last_two_digits == a % 100
    IN  IF last_digit = 1 THEN "god"
        ELSE IF 11 <= last_two_digits /\ last_two_digits <= 19 THEN "let"
        ELSE IF 2 <= last_digit /\ last_digit <= 4 THEN "goda"
        ELSE "let"

get_year_word(a) ==
    LET last_two_digits == a % 100
        last_digit == a % 10
    IN  IF 11 <= last_two_digits /\ last_two_digits <= 19 THEN "let"
        ELSE IF last_digit = 1 THEN "god"
        ELSE IF 2 <= last_digit /\ last_digit <= 4 THEN "goda"
        ELSE "let"

\* --------------------------------------------------------- clean_data
clean_data(value) == IF notna(value) THEN value ELSE Str(<<>>)

\* ------------------------------------------------- find_cheapest_wine
\* The filter of the list comprehension.
valid_price(wine) == notna(wine.Price) /\ wine.Price.n > 0

\* Python's min(seq, key=price): the first of the minimal items.
RECURSIVE py_min_from(_, _, _)
py_min_from(seq, i, best) ==
    IF i > Len(seq) THEN best
    ELSE py_min_from(seq, i + 1,
                     IF seq[i].Price.n < best.Price.n THEN seq[i] ELSE best)

\* A minimum in which a later equal item replaces the earlier one.
RECURSIVE py_min_last_from(_, _, _)
py_min_last_from(seq, i, best) ==
    IF i > Len(seq) THEN best
    ELSE py_min_last_from(seq, i + 1,
                          IF seq[i].Price.n <= best.Price.n THEN seq[i] ELSE best)

py_min_last(seq) == py_min_last_from(seq, 2, seq[1])

py_min(seq) == py_min_from(seq, 2, seq[1])

\* The return value: <<>> for None, <<wine>> for a row.
find_cheapest_wine(wines_data) ==
    LET valid_wines == SelectSeq(wines_data, valid_price)
    IN  IF valid_wines = <<>> THEN <<>> ELSE <<py_min(valid_wines)>>

\* The placeholder {} main substitutes for None: every .get gives None.
EmptyDict ==
    [Name |-> None, Grape |-> None, Price |-> None, Image |-> None,
     Category |-> None]

\* -------------------------------------------------- process_wine_data
\* Both comparisons are Python's ==, on the raw cells.
is_cheapest(wine_data, cheapest) ==
    /\ PyEq(wine_data.Name, cheapest.Name)
    /\ PyEq(wine_data.Price, cheapest.Price)

\* A price cell that is dropped unless it is strictly positive.
emitted_price_positive_only(wine_data) ==
    IF notna(wine_data.Price) /\ wine_data.Price.n > 0
    THEN wine_data.Price ELSE None

\* 'Цена': the cell if pd.notna(the cell) else None
emitted_price(wine_data) ==
    IF notna(wine_data.Price) THEN wine_data.Price ELSE None

process_wine_data(wine_data, cheapest) ==
    [Name  |-> clean_data(wine_data.Name),
     Grape |-> clean_data(wine_data.Grape),
     Price |-> emitted_price(wine_data),
     Image |-> clean_data(wine_data.Image),
     Promo |-> is_cheapest(wine_data, cheapest)]

\* -------------------------------------------- group_wines_by_category
\* category = clean_data(wine.get('Категория', '')).strip()
\* The category without the call of strip.
category_of_unstripped(wine) == clean_data(wine.Category).s

category_of(wine) == strip(clean_data(wine.Category).s)

KeyIndex(groups, key) ==
    LET hits == {i \in 1..Len(groups) : groups[i].key = key}
    IN  IF hits = {} THEN 0 ELSE CHOOSE i \in hits : TRUE

\* grouped_wines[category].append(processed_wine) on a defaultdict(list).
\* An insertion at the front instead of the end.
dict_append_front(groups, key, item) ==
    LET i == KeyIndex(groups, key)
    IN  IF i = 0
        THEN <<[key |-> key, wines |-> <<item>>]>> \o groups
        ELSE [groups EXCEPT ![i].wines = <<item>> \o @]

dict_append(groups, key, item) ==
    LET i == KeyIndex(groups, key)
    IN  IF i = 0
        THEN Append(groups, [key |-> key, wines |-> <<item>>])
        ELSE [groups EXCEPT ![i].wines = Append(@, item)]

RECURSIVE group_loop(_, _, _, _)
group_loop(wines_data, cheapest, i, groups) ==
    IF i > Len(wines_data) THEN groups
    ELSE LET wine == wines_data[i]
             category == category_of(wine)
         IN  IF category = <<>>
             THEN group_loop(wines_data, cheapest, i + 1, groups)
             ELSE group_loop(wines_data, cheapest, i + 1,
                             dict_append(groups, category,
                                         process_wine_data(wine, cheapest)))

group_wines_by_category(wines_data, cheapest) ==
    group_loop(wines_data, cheapest, 1, <<>>)

\* ------------------------------------------------------- input rows
\* Lists of at most MaxLen rows over a set of rows: what
\* load_wine_data_from_excel can return.
Lists(rows) == UNION {[1..n -> rows] : n \in 0..MaxLen}

Row(name, price, category) ==
    [Name |-> name, Grape |-> Str(<<"G">>), Price |-> price,
     Image |-> Str(<<"i">>), Category |-> category]

Red == <<"R", "e", "d">>

White == <<"W">>

\* Rows that differ in their price cell: missing, blank, negative, zero
\* and two positive prices.
PriceRows ==
    {Row(Str(name), price, Str(Red)) :
        name \in {<<"A">>, <<"B">>},
        price \in {None, NaN, Num(-5), Num(0), Num(50), Num(100)}}

\* Rows that differ in name and price, over two categories.
PromoRows ==
    {Row(name, price, Str(category)) :
        name \in {None, NaN, Str(<<"A">>), Str(<<"B">>)},
        price \in {None, NaN, Num(50), Num(100)},
        category \in {Red, White}}

\* Rows that differ in their category cell; the other cells are all
\* present, or missing (name, price) and blank (grape, image).
GroupRows ==
    {[Name |-> body[1], Grape |-> body[2], Price |-> body[3],
      Image |-> body[4], Category |-> category] :
        body \in {<<Str(<<"A">>), Str(<<"G">>), Num(50), Str(<<"i">>)>>,
                  <<Str(<<"B">>), Str(<<"G">>), Num(100), Str(<<"i">>)>>,
                  <<None, NaN, None, NaN>>},
        category \in {None, NaN, Str(<<" ", " ">>), Str(Red),
                      Str(Red \o <<" ">>), Str(<<" ">> \o White)}}

\* Rows for the runs of main.
MainRows ==
    {Row(Str(<<"A">>), Num(100), Str(Red)),
     Row(Str(<<"B">>), Num(50), Str(White)),
     Row(NaN, NaN, NaN)}

\* FOUNDATION_YEAR
FOUNDATION_YEAR == 1920

\* datetime.now().year
Years == {2025, 2026}

\* ------------------------------------------------------------ states
\* The state before the first statement of a run.  json_file and html_file
\* are what the run has done to wine3.json and index.html: "untouched",
\* "partial" (opened for writing, the write failed) or "written".
Start(pc0, lists, years, ages) ==
    /\ pc = pc0
    /\ wines_list \in lists
    /\ cheapest_ret = <<>>
    /\ cheapest_wine = EmptyDict
    /\ grouped_wines = <<>>
    /\ json_file = "untouched"
    /\ html_file = "untouched"
    /\ error_printed = FALSE
    /\ return_code = -1
    /\ exit_status = -1
    /\ failed_stage = ""
    /\ trace = <<>>
    /\ winery_age \in {y - FOUNDATION_YEAR : y \in years}
    /\ age \in ages
    /\ year_word = ""

\* main about to start.
InitMain == Start("load", {<<>>}, Years, {0})

\* find_cheapest_wine and group_wines_by_category on a loaded list.
InitPrice == Start("find", Lists(PriceRows), {2026}, {0})

InitPromo == Start("find", Lists(PromoRows), {2026}, {0})

InitGroup == Start("find", Lists(GroupRows), {2026}, {0})

\* get_year_word on an age.
InitAge == Start("age", {<<>>}, {2026}, 0..MaxAge)

\* ----------------------------------------------------------- actions
\* A handler that reports the error and lets the run go on.
FailAndGoOn(stage) ==
    /\ failed_stage' = stage
    /\ error_printed' = TRUE
    /\ return_code' = 1
    /\ trace' = Append(trace, stage)
    /\ pc' = IF stage = "save" THEN "html" ELSE "returned"

\* except Exception as e: print(...); return 1
Fail(stage) ==
    /\ failed_stage' = stage
    /\ error_printed' = TRUE
    /\ return_code' = 1
    /\ trace' = Append(trace, stage)
    /\ pc' = "returned"

\* wines_list = load_wine_data_from_excel(EXCEL_FILE_PATH)
Load ==
    /\ pc = "load"
    /\ \E rows \in Lists(MainRows) : wines_list' = rows
    /\ trace' = Append(trace, "load")
    /\ pc' = "find"
    /\ UNCHANGED <<failed_stage,
                   cheapest_ret, cheapest_wine, grouped_wines, json_file,
                   html_file, error_printed, return_code, exit_status,
                   winery_age, age, year_word>>

\* load_wine_data_from_excel raises: file not found or unreadable.
LoadFail ==
    /\ pc = "load"
    /\ Fail("load")
    /\ UNCHANGED <<wines_list, cheapest_ret, cheapest_wine, grouped_wines,
                   json_file, html_file, exit_status, winery_age, age,
                   year_word>>

\* cheapest_wine = find_cheapest_wine(wines_list), {} when it is None.
FindCheapest ==
    /\ pc = "find"
    /\ cheapest_ret' = find_cheapest_wine(wines_list)
    /\ cheapest_wine' = IF cheapest_ret' = <<>> THEN EmptyDict
                        ELSE cheapest_ret'[1]
    /\ trace' = Append(trace, "find")
    /\ pc' = "group"
    /\ UNCHANGED <<failed_stage,
                   wines_list, grouped_wines, json_file, html_file,
                   error_printed, return_code, exit_status, winery_age, age,
                   year_word>>

\* grouped_wines = group_wines_by_category(wines_list, cheapest_wine)
Group ==
    /\ pc = "group"
    /\ grouped_wines' = group_wines_by_category(wines_list, cheapest_wine)
    /\ trace' = Append(trace, "group")
    /\ pc' = "save"
    /\ UNCHANGED <<failed_stage,
                   wines_list, cheapest_ret, cheapest_wine, json_file,
                   html_file, error_printed, return_code, exit_status,
                   winery_age, age, year_word>>

\* save_data_to_json(grouped_wines, JSON_OUTPUT_PATH) returns.
SaveJson ==
    /\ pc = "save"
    /\ json_file' = "written"
    /\ trace' = Append(trace, "save")
    /\ pc' = "html"
    /\ UNCHANGED <<failed_stage,
                   wines_list, cheapest_ret, cheapest_wine, grouped_wines,
                   html_file, error_printed, return_code, exit_status,
                   winery_age, age, year_word>>

\* save_data_to_json raises: open fails (file untouched) or json.dump fails
\* after open truncated the file (partial).
SaveJsonFail ==
    /\ pc = "save"
    /\ json_file' \in {"untouched", "partial"}
    /\ Fail("save")
    /\ UNCHANGED <<wines_list, cheapest_ret, cheapest_wine, grouped_wines,
                   html_file, exit_status, winery_age, age, year_word>>

\* generate_html_page(grouped_wines, winery_age, HTML_OUTPUT_PATH) returns;
\* main prints the success lines and returns 0.
GenerateHtml ==
    /\ pc = "html"
    /\ html_file' = "written"
    /\ return_code' = 0
    /\ trace' = Append(trace, "html")
    /\ pc' = "returned"
    /\ UNCHANGED <<failed_stage,
                   wines_list, cheapest_ret, cheapest_wine, grouped_wines,
                   json_file, error_printed, exit_status, winery_age, age,
                   year_word>>

\* generate_html_page raises: the template is missing or does not render,
\* or open fails (file untouched), or file.write fails (partial).
GenerateHtmlFail ==
    /\ pc = "html"
    /\ html_file' \in {"untouched", "partial"}
    /\ Fail("html")
    /\ UNCHANGED <<wines_list, cheapest_ret, cheapest_wine, grouped_wines,
                   json_file, exit_status, winery_age, age, year_word>>

\* if __name__ == '__main__': main() -- the value main returns is dropped
\* and the interpreter ends normally, with status 0.
ExitStatus == 0

Exit ==
    /\ pc = "returned"
    /\ exit_status' = ExitStatus
    /\ pc' = "exited"
    /\ UNCHANGED <<failed_stage,
                   wines_list, cheapest_ret, cheapest_wine, grouped_wines,
                   json_file, html_file, error_printed, return_code, trace,
                   winery_age, age, year_word>>

\* get_year_word(age)
YearWord ==
    /\ pc = "age"
    /\ year_word' = get_year_word(age)
    /\ pc' = "aged"
    /\ UNCHANGED <<failed_stage,
                   wines_list, cheapest_ret, cheapest_wine, grouped_wines,
                   json_file, html_file, error_printed, return_code,
                   exit_status, trace, winery_age, age>>

\* ---------------------------------------------------- specifications
NextMain ==
    \/ Load
    \/ LoadFail
    \/ FindCheapest
    \/ Group
    \/ SaveJson
    \/ SaveJsonFail
    \/ GenerateHtml
    \/ GenerateHtmlFail
    \/ Exit

NextData ==
    \/ FindCheapest
    \/ Group

NextAge == YearWord

\* A run of main.
Spec == InitMain /\ [][NextMain]_vars

SpecPrice == InitPrice /\ [][NextData]_vars

SpecPromo == InitPromo /\ [][NextData]_vars

SpecGroup == InitGroup /\ [][NextData]_vars

SpecAge == InitAge /\ [][NextAge]_vars

\* ------------------------------------------------- claims: helpers
Last(seq) == seq[Len(seq)]

Ran(stage) == \E i \in DOMAIN trace : trace[i] = stage

\* A missing or blank cell.
Absent(value) == value.t \in {"None", "NaN"}

\* A price that is present and strictly positive.
Positive(value) == value.t = "num" /\ value.n > 0

\* The category of a row as the grouping is specified: a missing value is
\* the empty string, and the surrounding whitespace is cut off.
Trimmed(wine) ==
    LET chars == IF Absent(wine.Category) THEN <<>> ELSE wine.Category.s
        solid == {i \in DOMAIN chars : chars[i] \notin Whitespace}
    IN  IF solid = {} THEN <<>>
        ELSE SubSeq(chars,
                    CHOOSE i \in solid : \A j \in solid : i <= j,
                    CHOOSE i \in solid : \A j \in solid : j <= i)

\* The indices of the input rows kept under a key, and the j-th of them.
RowsOf(key) == {i \in DOMAIN wines_list : Trimmed(wines_list[i]) = key}

NthRowOf(key, j) ==
    CHOOSE i \in RowsOf(key) : Cardinality({k \in RowsOf(key) : k <= i}) = j

\* The positions of the grouped output: <<g, j>> is row j of entry g.
Emitted ==
    UNION {{<<g, j>> : j \in DOMAIN grouped_wines[g].wines} :
              g \in DOMAIN grouped_wines}

EmittedRow(p) == grouped_wines[p[1]].wines[p[2]]

\* The input row an emitted row was made from.
SourceRow(p) == wines_list[NthRowOf(grouped_wines[p[1]].key, p[2])]

Flagged == {p \in Emitted : EmittedRow(p).Promo}

\* ------------------------------------------------------------- C1
ValidRows == {i \in DOMAIN wines_list : Positive(wines_list[i].Price)}

\* The first row, in input order, whose price is the least valid price.
FirstCheapest ==
    CHOOSE i \in ValidRows :
        \A j \in ValidRows :
            \/ wines_list[i].Price.n < wines_list[j].Price.n
            \/ wines_list[i].Price.n = wines_list[j].Price.n /\ i <= j

\* C1: find_cheapest_wine returns None when no row has a present, strictly
\* positive price; otherwise it returns the row of least input index among
\* the rows whose price is the minimum of the present, strictly positive
\* prices.
C1_FirstCheapestReturned ==
    Ran("find") =>
        IF ValidRows = {} THEN cheapest_ret = <<>>
        ELSE cheapest_ret = <<wines_list[FirstCheapest]>>

\* C1 witness: two rows of different names tie at the least valid price,
\* a row with a zero or negative price stands before them, and the first
\* of the two was returned.
C1_Witness ==
    /\ Ran("find")
    /\ \E z, i, j \in DOMAIN wines_list :
        /\ z < i /\ i < j
        /\ wines_list[z].Price.t = "num" /\ wines_list[z].Price.n <= 0
        /\ Positive(wines_list[i].Price)
        /\ wines_list[i].Price = wines_list[j].Price
        /\ wines_list[i].Name # wines_list[j].Name
        /\ cheapest_ret = <<wines_list[i]>>

\* C1 witness of the other branch: rows are there, none with a valid
\* price, and None was returned.
C1_WitnessNone ==
    /\ Ran("find")
    /\ Len(wines_list) >= 2
    /\ ValidRows = {}
    /\ cheapest_ret = <<>>

\* ------------------------------------------------------------- C2
\* C2 as claimed: an emitted row is flagged exactly when its name and its
\* price are the name and the price of the cheapest-item record.
C2_FlaggedIffNameAndPriceMatch ==
    Ran("group") =>
        \A p \in Emitted :
            EmittedRow(p).Promo <=>
                /\ SourceRow(p).Name = cheapest_wine.Name
                /\ SourceRow(p).Price = cheapest_wine.Price

\* ------------------------------------------------------------- C3
\* C3 as claimed: when no input row has a present, strictly positive
\* price, no emitted row is flagged.
C3_NoValidPriceNoFlag ==
    (Ran("group") /\ ValidRows = {}) => Flagged = {}

\* ------------------------------------------------------------- C4
\* C4 as claimed: at most one emitted row, over all categories, is flagged.
C4_AtMostOneFlagged ==
    Ran("group") => Cardinality(Flagged) <= 1

\* ------------------------------------------------------------- C9
\* C9 as claimed: every emitted price is absent or strictly positive.
C9_PriceAbsentOrPositive ==
    Ran("group") =>
        \A p \in Emitted :
            EmittedRow(p).Price = None \/ Positive(EmittedRow(p).Price)

\* C9 amended: the emitted price is absent exactly when the cell is missing
\* or blank, and is otherwise the input price unchanged, whatever its sign.
C9_PriceAbsentOrUnchanged ==
    Ran("group") =>
        \A p \in Emitted :
            EmittedRow(p).Price =
                IF Absent(SourceRow(p).Price) THEN None
                ELSE SourceRow(p).Price

\* C9 witness: a zero price, a negative price and a blank price cell were
\* emitted, as 0, as the negative number and as None.
C9_Witness ==
    /\ Ran("group")
    /\ \E p, q, r \in Emitted :
        /\ EmittedRow(p).Price = Num(0)
        /\ EmittedRow(q).Price.t = "num" /\ EmittedRow(q).Price.n < 0
        /\ SourceRow(r).Price = NaN /\ EmittedRow(r).Price = None

\* ------------------------------------------------------------- C5
Kept == {i \in DOMAIN wines_list : Trimmed(wines_list[i]) # <<>>}

\* C5: a row is in the grouped output exactly when its trimmed category is
\* not empty, and then once, under the trimmed category; no key is empty
\* or has surrounding whitespace, and the number of grouped rows is the
\* number of input rows with a non-blank category.
C5_KeptIffCategoryNotBlank ==
    Ran("group") =>
        /\ \A g \in DOMAIN grouped_wines :
            LET key == grouped_wines[g].key
            IN  /\ key # <<>>
                /\ Head(key) \notin Whitespace
                /\ Last(key) \notin Whitespace
        /\ \A g, h \in DOMAIN grouped_wines :
            grouped_wines[g].key = grouped_wines[h].key => g = h
        /\ \A i \in DOMAIN wines_list :
            i \in Kept <=>
                \E g \in DOMAIN grouped_wines :
                    grouped_wines[g].key = Trimmed(wines_list[i])
        /\ \A g \in DOMAIN grouped_wines :
            Len(grouped_wines[g].wines) =
                Cardinality(RowsOf(grouped_wines[g].key))
        /\ Cardinality(Emitted) = Cardinality(Kept)

\* C5 witness: a row with a whitespace-only category was left out, a row
\* with category "Red " and a row with no name, grape, price or image were
\* kept under the key "Red".
C5_Witness ==
    /\ Ran("group")
    /\ \E i, j, k \in DOMAIN wines_list :
        /\ wines_list[i].Category = Str(<<" ", " ">>)
        /\ wines_list[j].Category = Str(Red \o <<" ">>)
        /\ wines_list[k].Category = Str(Red)
        /\ wines_list[k].Name = None /\ wines_list[k].Price = None
    /\ Len(grouped_wines) = 1
    /\ grouped_wines[1].key = Red
    /\ Len(grouped_wines[1].wines) = 2

\* ------------------------------------------------------------- C6
\* A text cell as it is emitted: the empty string when missing or blank.
Cleaned(value) == IF Absent(value) THEN Str(<<>>) ELSE value

Least(indices) == CHOOSE i \in indices : \A j \in indices : i <= j

\* C6: the keys stand in the order of their first kept input row, and the
\* rows under a key stand in their input order.
C6_OrderPreserved ==
    Ran("group") =>
        /\ \A g \in DOMAIN grouped_wines :
            /\ RowsOf(grouped_wines[g].key) # {}
            /\ Len(grouped_wines[g].wines) =
                   Cardinality(RowsOf(grouped_wines[g].key))
        /\ \A g, h \in DOMAIN grouped_wines :
            g < h => Least(RowsOf(grouped_wines[g].key))
                         < Least(RowsOf(grouped_wines[h].key))
        /\ \A p \in Emitted :
            /\ EmittedRow(p).Name = Cleaned(SourceRow(p).Name)
            /\ EmittedRow(p).Grape = Cleaned(SourceRow(p).Grape)
            /\ EmittedRow(p).Image = Cleaned(SourceRow(p).Image)
            /\ EmittedRow(p).Price =
                   IF Absent(SourceRow(p).Price) THEN None
                   ELSE SourceRow(p).Price

\* C6 witness: rows A (Red), B (" W") and B ("Red ") in this order came out
\* as the keys "Red", "W" with A before B under "Red".
C6_Witness ==
    /\ Ran("group")
    /\ Len(wines_list) = 3
    /\ wines_list[1].Name = Str(<<"A">>) /\ wines_list[1].Category = Str(Red)
    /\ wines_list[2].Category = Str(<<" ">> \o White)
    /\ wines_list[3].Name = Str(<<"B">>)
    /\ wines_list[3].Category = Str(Red \o <<" ">>)
    /\ Len(grouped_wines) = 2
    /\ grouped_wines[1].key = Red /\ grouped_wines[2].key = White
    /\ grouped_wines[1].wines[1].Name = Str(<<"A">>)
    /\ grouped_wines[1].wines[2].Name = Str(<<"B">>)

\* ------------------------------------------------------------- C7
\* The rule of the word forms as it is specified.
WordForm(a) ==
    CASE (a % 100) \in 11..19 -> "let"
      [] (a % 100) \notin 11..19 /\ a % 10 = 1 -> "god"
      [] (a % 100) \notin 11..19 /\ (a % 10) \in 2..4 -> "goda"
      [] OTHER -> "let"

\* C7: for every age >= 0 get_year_word gives 'let' when age mod 100 is in
\* 11..19, otherwise 'god' when age mod 10 = 1, otherwise 'goda' when
\* age mod 10 is in 2..4, otherwise 'let'; so 1 -> god, 2 -> goda, 5 -> let,
\* 11 -> let, 21 -> god, 105 -> let.
C7_YearWordRule ==
    pc = "aged" =>
        /\ year_word = WordForm(age)
        /\ age = 1 => year_word = "god"
        /\ age = 2 => year_word = "goda"
        /\ age = 5 => year_word = "let"
        /\ age = 11 => year_word = "let"
        /\ age = 21 => year_word = "god"
        /\ age = 105 => year_word = "let"

\* C7 witness: 111 ends in 1 and its last two digits are 11: 'let'.
C7_Witness == pc = "aged" /\ age = 111 /\ year_word = "let"

\* ------------------------------------------------------------- C8
\* C8 as claimed: a run in which a stage raised printed an error and ended
\* with a non-zero return code and process exit status; a run in which no
\* stage raised ended with return code 0.
C8_ErrorGivesNonZeroExit ==
    pc = "exited" =>
        IF failed_stage # ""
        THEN error_printed /\ return_code # 0 /\ exit_status # 0
        ELSE return_code = 0

\* ------------------------------------------------------------ C10
Stages == <<"load", "find", "group", "save", "html">>

\* The stages ran in the order load, find, group, save, html.
InStageOrder ==
    /\ Len(trace) <= Len(Stages)
    /\ \A i \in DOMAIN trace : trace[i] = Stages[i]

\* A stage that raised was the last one to run.
FailureStops ==
    failed_stage # "" =>
        /\ pc \in {"returned", "exited"}
        /\ Last(trace) = failed_stage

\* C10 as claimed: the stages run in order, a failure stops the run, and a
\* run that ended with an error has written neither artifact (a file left
\* partial by its own failing write is not counted as written here).
C10_NoOutputOnFailure ==
    /\ InStageOrder
    /\ FailureStops
    /\ failed_stage # "" =>
        json_file # "written" /\ html_file # "written"

\* C10 amended: the stages run in order and a failure stops the run, so a
\* failed run never touches the artifact of a later stage and never
\* completes index.html; the artifact of the failing stage may be left
\* partial, and the JSON file written before a failure of the HTML stage
\* stays.
C10_NoLaterStageOnFailure ==
    /\ InStageOrder
    /\ FailureStops
    /\ json_file # "untouched" => Ran("save")
    /\ html_file # "untouched" => Ran("html")
    /\ failed_stage # "" => html_file # "written"
    /\ failed_stage \in {"load", "save"} => html_file = "untouched"
    /\ failed_stage = "load" => json_file = "untouched"
    /\ failed_stage = "html" => json_file = "written"

\* C10 witness: the HTML stage raised after the JSON file was written, and
\* the run ended with return code 1.
C10_Witness ==
    /\ pc = "exited"
    /\ failed_stage = "html"
    /\ json_file = "written"
    /\ html_file # "written"
    /\ return_code = 1

====
